---- MODULE Spec2Model ----
(***************************************************************************)
(* A model of tensorboard/data/provider.py: the value types (Run,          *)
(* ScalarTimeSeries, ScalarDatum, BlobSequenceTimeSeries, BlobReference,   *)
(* BlobSequenceDatum), RunTagFilter, and the DataProvider interface.       *)
(*                                                                         *)
(* Python values are tagged records [type, val].  A Python list is a       *)
(* reference [type |-> "list", val |-> address] into `heap`, so that a     *)
(* caller who keeps the list can change it after handing it over; tuples,  *)
(* frozensets, strings and numbers are immutable and carried by value.     *)
(* Objects are records of their private attributes plus `cls`, and        *)
(* `__dict__` for the instances that have one.                             *)
(***************************************************************************)
EXTENDS Integers, Sequences, FiniteSets, TLC

VARIABLES
  a,      \* the object under observation
  b,      \* a second object of the same class (PairSpec), else PyNone
  args,   \* the constructor arguments of a and b, as they were at the call
  heap,   \* address -> contents of the caller's lists
  ctor,   \* what each accessor of `a` returned right after construction
  last,   \* the last operation a caller performed and its outcome
  store   \* the backend's scalar data (ProviderSpec)

vars == <<a, b, args, heap, ctor, last, store>>

(***************************************************************************)
(* Bounds of the model.                                                    *)
(***************************************************************************)
MaxLen == 2      \* longest runs / tags collection handed to RunTagFilter
MaxValues == 2   \* longest `values` sequence of a BlobSequenceDatum
MaxStep == 2     \* largest step a backend records
MaxPoints == 3   \* most data points a backend holds in all

(***************************************************************************)
(* Python values and outcomes of a call.                                   *)
(***************************************************************************)
PyNone == [type |-> "NoneType", val |-> "None"]
\* float("nan"): `val` is the identity of the float object, which no
\* comparison reads and on which (Python 3.10 and later) its hash depends.
NaNObject(id) == [type |-> "nan", val |-> id]
NaN == NaNObject(1)
NaNs == {NaN, NaNObject(2)}
PyStr(s) == [type |-> "str", val |-> s]
PyBytes(s) == [type |-> "bytes", val |-> s]
PyInt(n) == [type |-> "int", val |-> n]
PyFloat(n) == [type |-> "float", val |-> n]
PyBool(p) == [type |-> "bool", val |-> p]
PyTuple(items) == [type |-> "tuple", val |-> items]
PyList(addr) == [type |-> "list", val |-> addr]

\* An element of a tuple or list: a reference to the object `obj` whose
\* identity is id.  Two references with one id are one object (`x is y`).
PyObject(id, obj) == [type |-> "object", id |-> id, val |-> obj]

Return(v) == [kind |-> "return", value |-> v]
Raise(e) == [kind |-> "raise", value |-> e]

\* What a caller sees of a value: a list shows its current contents.
View(v, h) ==
  IF v.type = "list" THEN [type |-> "list_contents", val |-> h[v.val]] ELSE v

Range(s) == { s[i] : i \in DOMAIN s }

\* int, float (other than NaN) and bool are numbers and compare by value:
\* True is 1 and False is 0.
IsNumber(v) == v.type \in {"int", "float", "bool"}

NumVal(v) == IF v.type = "bool" THEN (IF v.val THEN 1 ELSE 0) ELSE v.val

(***************************************************************************)
(* x != y on field values.  NaN is unequal to everything, itself included; *)
(* numbers are compared by value whatever their types (1 == 1.0 == True);  *)
(* other values of different types are unequal; a tuple never equals a     *)
(* list.                                                                   *)
(***************************************************************************)
AtomNe(x, y) ==
  IF x.type = "nan" \/ y.type = "nan" THEN TRUE
  ELSE IF IsNumber(x) /\ IsNumber(y) THEN NumVal(x) # NumVal(y)
  ELSE IF x.type # y.type THEN TRUE
  ELSE x.val # y.val

(***************************************************************************)
(* hash(v) of a str, bytes, number or None.  Equal values have equal       *)
(* hashes, and so have the values CPython hashes alike: a number hashes by *)
(* its value (hash(1) == hash(1.0) == hash(True)), except that -1 is       *)
(* reserved and hashes like -2; a str and a bytes of the same ASCII        *)
(* content hash alike, the empty ones like 0.  A NaN hashes by the         *)
(* identity of its float object, so that two NaN objects hash apart and    *)
(* one NaN object shared by two fields hashes alike.  None stands for its  *)
(* own hash.                                                               *)
(***************************************************************************)
AtomHash(v) ==
  IF v.type = "nan" THEN Return([type |-> "id", val |-> v.val])
  ELSE IF IsNumber(v)
    THEN Return([type |-> "number",
                 val |-> IF NumVal(v) = 0 - 1 THEN 0 - 2 ELSE NumVal(v)])
  ELSE IF v.type \in {"str", "bytes"}
    THEN IF Len(v.val) = 0
           THEN Return([type |-> "number", val |-> 0])
           ELSE Return([type |-> "text", val |-> v.val])
  ELSE Return(v)

\* hash((h1, ..., hn)): raises when hashing an element raised.
HashTuple(hs) ==
  IF \E i \in DOMAIN hs : hs[i].kind = "raise"
  THEN Raise("TypeError")
  ELSE Return([type |-> "hash", val |-> [i \in DOMAIN hs |-> hs[i].value]])

(***************************************************************************)
(* BlobReference                                                           *)
(***************************************************************************)
\* The characters a blob key may hold: "URL-safe 'unreserved' characters as
\* specified by RFC 3986, section 2.3", i.e. [a-zA-Z0-9._~-].
Unreserved ==
  {"a", "b", "c", "d", "e", "f", "g", "h", "i", "j", "k", "l", "m",
   "n", "o", "p", "q", "r", "s", "t", "u", "v", "w", "x", "y", "z",
   "A", "B", "C", "D", "E", "F", "G", "H", "I", "J", "K", "L", "M",
   "N", "O", "P", "Q", "R", "S", "T", "U", "V", "W", "X", "Y", "Z",
   "0", "1", "2", "3", "4", "5", "6", "7", "8", "9",
   ".", "_", "~", "-"}

\* A blob key is a sequence of characters.
ValidBlobKey(key) ==
  /\ key # <<>>
  /\ \A i \in DOMAIN key : key[i] \in Unreserved

\* A constructor that drops the characters a blob key may not hold.
KeyCharOk(c) == c \in Unreserved

BlobReference__init__Sanitizing(blob_key, url) ==
  [cls |-> "BlobReference", _blob_key |-> PyStr(SelectSeq(blob_key.val, KeyCharOk)),
   _url |-> url]

BlobReference__init__(blob_key, url) ==
  [cls |-> "BlobReference", _blob_key |-> blob_key, _url |-> url]

BlobReference__eq__(self, other) ==
  IF other.cls # "BlobReference" THEN FALSE
  ELSE IF AtomNe(self._blob_key, other._blob_key) THEN FALSE
  ELSE IF AtomNe(self._url, other._url) THEN FALSE
  ELSE TRUE

BlobReference__hash__(self) ==
  HashTuple(<<AtomHash(self._blob_key), AtomHash(self._url)>>)

(***************************************************************************)
(* Comparison and hashing of any field value.                              *)
(***************************************************************************)
\* xs != ys of two tuples or two lists of BlobReference: the lengths differ,
\* or some pair of elements is neither one object nor equal (`x is y or
\* x == y` decides that two elements are alike).
SeqNe(xs, ys) ==
  \/ Len(xs) # Len(ys)
  \/ \E i \in DOMAIN xs :
       ~(\/ xs[i].id = ys[i].id
         \/ BlobReference__eq__(xs[i].val, ys[i].val))

\* x != y.  Two frozensets of names differ when their elements do.
PyNe(x, y, h) ==
  IF x.type = "tuple" /\ y.type = "tuple" THEN SeqNe(x.val, y.val)
  ELSE IF x.type = "list" /\ y.type = "list" THEN SeqNe(h[x.val], h[y.val])
  ELSE IF x.type = "frozenset" /\ y.type = "frozenset" THEN x.val # y.val
  ELSE AtomNe(x, y)

PyHash(v) ==
  IF v.type = "list" THEN Raise("TypeError")
  ELSE IF v.type = "tuple"
    THEN HashTuple([i \in DOMAIN v.val |-> BlobReference__hash__(v.val[i].val)])
  ELSE AtomHash(v)

(***************************************************************************)
(* Run                                                                     *)
(***************************************************************************)
Run__init__(run_id, run_name, start_time) ==
  [cls |-> "Run", _run_id |-> run_id, _run_name |-> run_name,
   _start_time |-> start_time]

Run__eq__(self, other, h) ==
  IF other.cls # "Run" THEN FALSE
  ELSE IF PyNe(self._run_id, other._run_id, h) THEN FALSE
  ELSE IF PyNe(self._run_name, other._run_name, h) THEN FALSE
  ELSE IF PyNe(self._start_time, other._start_time, h) THEN FALSE
  ELSE TRUE

Run__hash__(self) ==
  HashTuple(<<PyHash(self._run_id), PyHash(self._run_name),
              PyHash(self._start_time)>>)

(***************************************************************************)
(* _TimeSeries, ScalarTimeSeries, BlobSequenceTimeSeries                   *)
(***************************************************************************)
ScalarTimeSeries__init__(max_step, max_wall_time, plugin_content, description, display_name) ==
  [cls |-> "ScalarTimeSeries", __dict__ |-> <<>>, _max_step |-> max_step,
   _max_wall_time |-> max_wall_time, _plugin_content |-> plugin_content,
   _description |-> description, _display_name |-> display_name]

ScalarTimeSeries__eq__(self, other, h) ==
  IF other.cls # "ScalarTimeSeries" THEN FALSE
  ELSE IF PyNe(self._max_step, other._max_step, h) THEN FALSE
  ELSE IF PyNe(self._max_wall_time, other._max_wall_time, h) THEN FALSE
  ELSE IF PyNe(self._plugin_content, other._plugin_content, h) THEN FALSE
  ELSE IF PyNe(self._description, other._description, h) THEN FALSE
  ELSE IF PyNe(self._display_name, other._display_name, h) THEN FALSE
  ELSE TRUE

ScalarTimeSeries__hash__(self) ==
  HashTuple(<<PyHash(self._max_step), PyHash(self._max_wall_time),
              PyHash(self._plugin_content), PyHash(self._description),
              PyHash(self._display_name)>>)

BlobSequenceTimeSeries__init__(max_step, max_wall_time, latest_max_index, plugin_content, description, display_name) ==
  [cls |-> "BlobSequenceTimeSeries", _max_step |-> max_step,
   _max_wall_time |-> max_wall_time, _plugin_content |-> plugin_content,
   _description |-> description, _display_name |-> display_name,
   _latest_max_index |-> latest_max_index]

\* An __eq__ that compares only the fields of the base class.
BlobSequenceTimeSeries__eq__BaseFieldsOnly(self, other, h) ==
  IF other.cls # "BlobSequenceTimeSeries" THEN FALSE
  ELSE IF PyNe(self._max_step, other._max_step, h) THEN FALSE
  ELSE IF PyNe(self._max_wall_time, other._max_wall_time, h) THEN FALSE
  ELSE IF PyNe(self._plugin_content, other._plugin_content, h) THEN FALSE
  ELSE IF PyNe(self._description, other._description, h) THEN FALSE
  ELSE IF PyNe(self._display_name, other._display_name, h) THEN FALSE
  ELSE TRUE

BlobSequenceTimeSeries__eq__(self, other, h) ==
  IF other.cls # "BlobSequenceTimeSeries" THEN FALSE
  ELSE IF PyNe(self._max_step, other._max_step, h) THEN FALSE
  ELSE IF PyNe(self._max_wall_time, other._max_wall_time, h) THEN FALSE
  ELSE IF PyNe(self._latest_max_index, other._latest_max_index, h) THEN FALSE
  ELSE IF PyNe(self._plugin_content, other._plugin_content, h) THEN FALSE
  ELSE IF PyNe(self._description, other._description, h) THEN FALSE
  ELSE IF PyNe(self._display_name, other._display_name, h) THEN FALSE
  ELSE TRUE

BlobSequenceTimeSeries__hash__(self) ==
  HashTuple(<<PyHash(self._max_step), PyHash(self._max_wall_time),
              PyHash(self._latest_max_index), PyHash(self._plugin_content),
              PyHash(self._description), PyHash(self._display_name)>>)

(***************************************************************************)
(* ScalarDatum                                                             *)
(***************************************************************************)
ScalarDatum__init__(step, wall_time, value) ==
  [cls |-> "ScalarDatum", _step |-> step, _wall_time |-> wall_time,
   _value |-> value]

ScalarDatum__eq__(self, other, h) ==
  IF other.cls # "ScalarDatum" THEN FALSE
  ELSE IF PyNe(self._step, other._step, h) THEN FALSE
  ELSE IF PyNe(self._wall_time, other._wall_time, h) THEN FALSE
  ELSE IF PyNe(self._value, other._value, h) THEN FALSE
  ELSE TRUE

ScalarDatum__hash__(self) ==
  HashTuple(<<PyHash(self._step), PyHash(self._wall_time),
              PyHash(self._value)>>)

(***************************************************************************)
(* BlobSequenceDatum: `values` is stored as given, a tuple or the caller's *)
(* own list.                                                               *)
(***************************************************************************)
BlobSequenceDatum__init__(step, wall_time, values) ==
  [cls |-> "BlobSequenceDatum", _step |-> step, _wall_time |-> wall_time,
   _values |-> values]

BlobSequenceDatum__eq__(self, other, h) ==
  IF other.cls # "BlobSequenceDatum" THEN FALSE
  ELSE IF PyNe(self._step, other._step, h) THEN FALSE
  ELSE IF PyNe(self._wall_time, other._wall_time, h) THEN FALSE
  ELSE IF PyNe(self._values, other._values, h) THEN FALSE
  ELSE TRUE

BlobSequenceDatum__hash__(self) ==
  HashTuple(<<PyHash(self._step), PyHash(self._wall_time),
              PyHash(self._values)>>)

(***************************************************************************)
(* RunTagFilter                                                            *)
(***************************************************************************)
\* frozenset((c,)): the collection taken as one element, not iterated.
frozensetOfOne(c, h) == [type |-> "frozenset", val |-> {PyTuple(h[c.val])}]

\* frozenset(c) of a list c: the set of its current elements.
frozenset(c, h) == [type |-> "frozenset", val |-> Range(h[c.val])]

\* A constructor that tests the truth of its arguments, not `is None`: an
\* empty collection is stored as None.
RunTagFilter__init__EmptyIsNone(runs, tags, h) ==
  [cls |-> "RunTagFilter", __dict__ |-> <<>>,
   _runs |-> IF runs.type = "NoneType" \/ h[runs.val] = <<>>
             THEN PyNone ELSE frozenset(runs, h),
   _tags |-> IF tags.type = "NoneType" \/ h[tags.val] = <<>>
             THEN PyNone ELSE frozenset(tags, h)]

RunTagFilter__init__(runs, tags, h) ==
  [cls |-> "RunTagFilter", __dict__ |-> <<>>,
   _runs |-> IF runs.type = "NoneType" THEN PyNone ELSE frozenset(runs, h),
   _tags |-> IF tags.type = "NoneType" THEN PyNone ELSE frozenset(tags, h)]

\* The documented pass condition: "A time series passes this filter if both
\* its run and its tag are included in the corresponding whitelists", None
\* admitting all.  Evaluated over the filter's accessors.
passes(f, run, tag) ==
  /\ (f._runs.type = "NoneType" \/ run \in f._runs.val)
  /\ (f._tags.type = "NoneType" \/ tag \in f._tags.val)

(***************************************************************************)
(* Classes: their properties (in the order __repr__ prints them), the      *)
(* slot behind each, and the names an instance answers to.                 *)
(***************************************************************************)
Classes ==
  {"Run", "ScalarTimeSeries", "BlobSequenceTimeSeries", "ScalarDatum",
   "BlobReference", "BlobSequenceDatum", "RunTagFilter"}

ValueTypes == Classes \ {"RunTagFilter"}

Properties(cls) ==
  CASE cls = "Run" -> <<"run_id", "run_name", "start_time">>
    [] cls = "ScalarTimeSeries" ->
         <<"max_step", "max_wall_time", "plugin_content", "description",
           "display_name">>
    [] cls = "BlobSequenceTimeSeries" ->
         <<"max_step", "max_wall_time", "latest_max_index", "plugin_content",
           "description", "display_name">>
    [] cls = "ScalarDatum" -> <<"step", "wall_time", "value">>
    [] cls = "BlobReference" -> <<"blob_key", "url">>
    [] cls = "BlobSequenceDatum" -> <<"step", "wall_time", "values">>
    [] cls = "RunTagFilter" -> <<"runs", "tags">>

Property(self, name) ==
  CASE name = "run_id" -> self._run_id
    [] name = "run_name" -> self._run_name
    [] name = "start_time" -> self._start_time
    [] name = "max_step" -> self._max_step
    [] name = "max_wall_time" -> self._max_wall_time
    [] name = "latest_max_index" -> self._latest_max_index
    [] name = "plugin_content" -> self._plugin_content
    [] name = "description" -> self._description
    [] name = "display_name" -> self._display_name
    [] name = "step" -> self._step
    [] name = "wall_time" -> self._wall_time
    [] name = "value" -> self._value
    [] name = "blob_key" -> self._blob_key
    [] name = "url" -> self._url
    [] name = "values" -> self._values
    [] name = "runs" -> self._runs
    [] name = "tags" -> self._tags

\* The methods an instance answers to, its class's own or those of `object`
\* (as of Python 3.11, which gave `object` a __getstate__).
ObjectMethods ==
  {"__init__", "__new__", "__eq__", "__ne__", "__lt__", "__le__", "__gt__",
   "__ge__", "__hash__", "__repr__", "__str__", "__format__", "__dir__",
   "__getattribute__", "__setattr__", "__delattr__", "__reduce__",
   "__reduce_ex__", "__getstate__", "__sizeof__", "__init_subclass__",
   "__subclasshook__"}

\* The __slots__ a class declares or inherits; RunTagFilter declares none.
Slots(cls) ==
  CASE cls = "Run" -> <<"_run_id", "_run_name", "_start_time">>
    [] cls = "ScalarTimeSeries" ->
         <<"_max_step", "_max_wall_time", "_plugin_content", "_description",
           "_display_name">>
    [] cls = "BlobSequenceTimeSeries" -> <<"_latest_max_index">>
    [] cls = "ScalarDatum" -> <<"_step", "_wall_time", "_value">>
    [] cls = "BlobReference" -> <<"_url", "_blob_key">>
    [] cls = "BlobSequenceDatum" -> <<"_step", "_wall_time", "_values">>
    [] cls = "RunTagFilter" -> <<>>

\* The classes whose instances have a __dict__: those that, or a base of
\* which, do not declare __slots__ (ScalarTimeSeries declares none of its
\* own).  The record field __dict__ holds the attributes put there after
\* construction.
HasDict(cls) == cls \in {"ScalarTimeSeries", "RunTagFilter"}

\* The private attributes __init__ sets: one behind each property.
Fields(cls) == { "_" \o Properties(cls)[i] : i \in DOMAIN Properties(cls) }

\* The names the class itself answers: properties, methods, and the rest.
ClassAttributes(cls) ==
  Range(Properties(cls)) \cup ObjectMethods \cup {"__class__", "__doc__", "__module__"}
    \cup (IF cls = "RunTagFilter" THEN {} ELSE {"__slots__"})
    \cup (IF HasDict(cls) THEN {"__dict__", "__weakref__"} ELSE {})

\* obj.__dict__ of an instance that has one.
InstanceDict(self) ==
  IF self.cls = "RunTagFilter"
    THEN [n \in {"_runs", "_tags"} \cup DOMAIN self.__dict__ |->
            IF n \in {"_runs", "_tags"} THEN self[n] ELSE self.__dict__[n]]
    ELSE self.__dict__

\* obj.name.  Properties, __class__ and __dict__ are data descriptors and
\* come first; then the instance's own attributes; then the class's.
getattr(self, name, h) ==
  IF name \in Range(Properties(self.cls))
    THEN Return(View(Property(self, name), h))
  ELSE IF name = "__class__"
    THEN Return([type |-> "type", val |-> self.cls])
  ELSE IF name = "__dict__" /\ HasDict(self.cls)
    THEN Return([type |-> "dict", val |-> InstanceDict(self)])
  ELSE IF name \in Fields(self.cls)
    THEN Return(View(self[name], h))
  ELSE IF HasDict(self.cls) /\ name \in DOMAIN self.__dict__
    THEN Return(View(self.__dict__[name], h))
  ELSE IF name = "__slots__" /\ name \in ClassAttributes(self.cls)
    THEN Return(PyTuple([i \in DOMAIN Slots(self.cls) |-> PyStr(Slots(self.cls)[i])]))
  ELSE IF name \in ObjectMethods
    THEN Return([type |-> "method", val |-> name])
  ELSE IF name \in ClassAttributes(self.cls)
    THEN Return([type |-> "attribute", val |-> name])
  ELSE Raise("AttributeError")

\* obj.name = v, v not a class or a dict.  No property has a setter; a
\* private attribute is overwritten; any other name goes to the instance's
\* __dict__ when it has one and is refused when it has not.
setattr(self, name, v) ==
  IF name \in Range(Properties(self.cls))
    THEN [obj |-> self, outcome |-> Raise("AttributeError")]
  ELSE IF name = "__class__" \/ (name = "__dict__" /\ HasDict(self.cls))
    THEN [obj |-> self, outcome |-> Raise("TypeError")]
  ELSE IF name \in Fields(self.cls)
    THEN [obj |-> [self EXCEPT ![name] = v], outcome |-> Return(PyNone)]
  ELSE IF HasDict(self.cls) /\ name # "__weakref__"
    THEN [obj |-> [self EXCEPT !.__dict__ = (name :> v) @@ @],
          outcome |-> Return(PyNone)]
  ELSE [obj |-> self, outcome |-> Raise("AttributeError")]

\* self.admits(run, tag): the attribute lookup comes first.  No class
\* defines `admits`, so the lookup finds only what a caller has stored under
\* that name in the instance's __dict__, and none of the values a caller
\* stores (None, numbers, str, bytes, tuples, lists) is callable.
admits(self, run, tag, h) ==
  IF getattr(self, "admits", h).kind = "raise"
    THEN getattr(self, "admits", h)
    ELSE Raise("TypeError")

\* x == y.  RunTagFilter defines no __eq__: object's compares identities.
Eq(x, y, same, h) ==
  CASE x.cls = "Run" -> Run__eq__(x, y, h)
    [] x.cls = "ScalarTimeSeries" -> ScalarTimeSeries__eq__(x, y, h)
    [] x.cls = "BlobSequenceTimeSeries" -> BlobSequenceTimeSeries__eq__(x, y, h)
    [] x.cls = "ScalarDatum" -> ScalarDatum__eq__(x, y, h)
    [] x.cls = "BlobReference" -> BlobReference__eq__(x, y)
    [] x.cls = "BlobSequenceDatum" -> BlobSequenceDatum__eq__(x, y, h)
    [] x.cls = "RunTagFilter" -> same

\* hash(x) of the object whose identity is id.  RunTagFilter defines no
\* __hash__: object's hashes the identity.
Hash(x, id) ==
  CASE x.cls = "Run" -> Run__hash__(x)
    [] x.cls = "ScalarTimeSeries" -> ScalarTimeSeries__hash__(x)
    [] x.cls = "BlobSequenceTimeSeries" -> BlobSequenceTimeSeries__hash__(x)
    [] x.cls = "ScalarDatum" -> ScalarDatum__hash__(x)
    [] x.cls = "BlobReference" -> BlobReference__hash__(x)
    [] x.cls = "BlobSequenceDatum" -> BlobSequenceDatum__hash__(x)
    [] x.cls = "RunTagFilter" -> Return([type |-> "id", val |-> id])

\* repr(x): the class name and, per property in order, "name=%r" of its slot.
Repr(x, h) ==
  [cls |-> x.cls,
   items |-> [i \in DOMAIN Properties(x.cls) |->
                <<Properties(x.cls)[i], View(Property(x, Properties(x.cls)[i]), h)>>]]

\* cls(**p)
New(cls, p, h) ==
  CASE cls = "Run" -> Run__init__(p.run_id, p.run_name, p.start_time)
    [] cls = "ScalarTimeSeries" ->
         ScalarTimeSeries__init__(p.max_step, p.max_wall_time,
                                  p.plugin_content, p.description,
                                  p.display_name)
    [] cls = "BlobSequenceTimeSeries" ->
         BlobSequenceTimeSeries__init__(p.max_step, p.max_wall_time,
                                        p.latest_max_index, p.plugin_content,
                                        p.description, p.display_name)
    [] cls = "ScalarDatum" -> ScalarDatum__init__(p.step, p.wall_time, p.value)
    [] cls = "BlobReference" -> BlobReference__init__(p.blob_key, p.url)
    [] cls = "BlobSequenceDatum" ->
         BlobSequenceDatum__init__(p.step, p.wall_time, p.values)
    [] cls = "RunTagFilter" -> RunTagFilter__init__(p.runs, p.tags, h)

(***************************************************************************)
(* The inputs of the model: constructor arguments per class.  An input is  *)
(* the parameters p and the contents (cells) of the two lists the caller   *)
(* may own, at addresses base and base + 1.                                *)
(***************************************************************************)
SeqsUpTo(S, n) == UNION { [1..k -> S] : k \in 0..n }

NoCells == << <<>>, <<>> >>

Steps == {PyInt(0), PyInt(1)}
WallTimes == {PyFloat(1)} \cup NaNs
RunNames == {PyStr("a"), PyStr("b")}
TagNames == {PyStr("x")}
BlobKeys == {PyStr(<<>>), PyStr(<<"k">>), PyStr(<<"a", "/", "b">>)}
Urls == {PyNone, PyStr("u"), NaN}

\* The BlobReference objects a caller puts into `values`: two objects built
\* alike, and two whose url is a NaN.
Refs ==
  {PyObject(1, BlobReference__init__(PyStr(<<"k">>), PyNone)),
   PyObject(2, BlobReference__init__(PyStr(<<"k">>), PyNone)),
   PyObject(3, BlobReference__init__(PyStr(<<"k">>), NaN)),
   PyObject(4, BlobReference__init__(PyStr(<<"k">>), NaNObject(2)))}

RunParams ==
  [run_id : {PyStr("r1"), PyStr("r2")},
   run_name : {PyStr("train"), PyStr("eval")},
   start_time : {PyNone, PyFloat(1), PyInt(1)} \cup NaNs]

ScalarTimeSeriesParams ==
  [max_step : Steps, max_wall_time : WallTimes,
   plugin_content : {PyBytes(""), PyBytes("pc")},
   description : {PyStr(""), PyStr("d")},
   display_name : {PyStr(""), PyStr("n")}]

BlobSequenceTimeSeriesParams ==
  [max_step : Steps, max_wall_time : WallTimes,
   latest_max_index : {PyInt(0), PyInt(1)},
   plugin_content : {PyBytes(""), PyBytes("pc")},
   description : {PyStr(""), PyStr("d")},
   display_name : {PyStr(""), PyStr("n")}]

ScalarDatumParams ==
  [step : Steps, wall_time : WallTimes, value : {PyFloat(0), PyInt(0), PyBool(FALSE)} \cup NaNs]

BlobReferenceParams == [blob_key : BlobKeys, url : Urls]

\* A collection argument: None, or the caller's list at `addr`.
CollArg(addr, names) ==
  {[ref |-> PyNone, cell |-> <<>>]}
    \cup {[ref |-> PyList(addr), cell |-> s] : s \in SeqsUpTo(names, MaxLen)}

\* `values`: a tuple, or the caller's list at `addr`.
ValuesArg(addr) ==
  {[ref |-> PyTuple(s), cell |-> <<>>] : s \in SeqsUpTo(Refs, MaxValues)}
    \cup {[ref |-> PyList(addr), cell |-> s] : s \in SeqsUpTo(Refs, MaxValues)}

Inputs(cls, base) ==
  CASE cls = "Run" -> {[p |-> p, cells |-> NoCells] : p \in RunParams}
    [] cls = "ScalarTimeSeries" ->
         {[p |-> p, cells |-> NoCells] : p \in ScalarTimeSeriesParams}
    [] cls = "BlobSequenceTimeSeries" ->
         {[p |-> p, cells |-> NoCells] : p \in BlobSequenceTimeSeriesParams}
    [] cls = "ScalarDatum" ->
         {[p |-> p, cells |-> NoCells] : p \in ScalarDatumParams}
    [] cls = "BlobReference" ->
         {[p |-> p, cells |-> NoCells] : p \in BlobReferenceParams}
    [] cls = "BlobSequenceDatum" ->
         {[p |-> [step |-> s, wall_time |-> w, values |-> v.ref],
           cells |-> <<v.cell, <<>>>>] :
            s \in Steps, w \in {PyFloat(1)}, v \in ValuesArg(base)}
    [] cls = "RunTagFilter" ->
         {[p |-> [runs |-> r.ref, tags |-> t.ref],
           cells |-> <<r.cell, t.cell>>] :
            r \in CollArg(base, RunNames), t \in CollArg(base + 1, TagNames)}

\* The arguments as the constructor saw them.
ArgsView(p, h) == [n \in DOMAIN p |-> View(p[n], h)]

\* What every accessor of x returns now.
Snapshot(x, h) ==
  [n \in Range(Properties(x.cls)) |-> View(Property(x, n), h)]

\* The addresses of the lists handed to the constructor.
Owned(p) == { p[n].val : n \in {m \in DOMAIN p : p[m].type = "list"} }

\* What a caller may put into its list at addr.
Elements(cls, addr) ==
  IF cls = "BlobSequenceDatum" THEN Refs
  ELSE IF addr = 1 THEN RunNames ELSE TagNames

Capacity(cls) == IF cls = "BlobSequenceDatum" THEN MaxValues ELSE MaxLen

\* The (run, tag) pairs a filter is asked about.
ProbeRuns == RunNames \cup {PyStr("c")}
ProbeTags == TagNames \cup {PyStr("z")}

NoStore == <<>>

(***************************************************************************)
(* Spec: one object, constructed, and everything a caller can do with it.  *)
(***************************************************************************)
Init ==
  \E cls \in Classes : \E in \in Inputs(cls, 1) :
    /\ heap = in.cells \o NoCells
    /\ a = New(cls, in.p, heap)
    /\ b = PyNone
    /\ args = [a |-> [p |-> in.p, view |-> ArgsView(in.p, heap)], b |-> PyNone]
    /\ ctor = Snapshot(a, heap)
    /\ last = [op |-> "__init__", arg |-> PyNone, outcome |-> Return(PyNone)]
    /\ store = NoStore

\* obj.<property>
ReadProperty ==
  /\ \E n \in Range(Properties(a.cls)) :
       last' = [op |-> "get", arg |-> n, outcome |-> getattr(a, n, heap)]
  /\ UNCHANGED <<a, b, args, heap, ctor, store>>

\* f.admits(run, tag): the attribute lookup comes first.
CallAdmits ==
  /\ a.cls = "RunTagFilter"
  /\ \E r \in ProbeRuns, t \in ProbeTags :
       last' = [op |-> "admits", arg |-> <<r, t>>,
                outcome |-> admits(a, r, t, heap)]
  /\ UNCHANGED <<a, b, args, heap, ctor, store>>

\* A backend applies the documented pass condition to (run, tag).
Passes ==
  /\ a.cls = "RunTagFilter"
  /\ \E r \in ProbeRuns, t \in ProbeTags :
       last' = [op |-> "passes", arg |-> <<r, t>>,
                outcome |-> Return(PyBool(passes(a, r, t)))]
  /\ UNCHANGED <<a, b, args, heap, ctor, store>>

\* obj == obj
CompareSelf ==
  /\ last' = [op |-> "eq", arg |-> PyNone,
              outcome |-> Return(PyBool(Eq(a, a, TRUE, heap)))]
  /\ UNCHANGED <<a, b, args, heap, ctor, store>>

\* hash(obj)
HashSelf ==
  /\ last' = [op |-> "hash", arg |-> PyNone, outcome |-> Hash(a, "a")]
  /\ UNCHANGED <<a, b, args, heap, ctor, store>>

\* repr(obj)
ReprSelf ==
  /\ last' = [op |-> "repr", arg |-> PyNone, outcome |-> Return(Repr(a, heap))]
  /\ UNCHANGED <<a, b, args, heap, ctor, store>>

\* obj.<name> = v for a public name: a property, or a name of the caller's.
AssignAttribute ==
  /\ \E n \in Range(Properties(a.cls)) \cup {"admits"} :
       /\ a' = setattr(a, n, PyNone).obj
       /\ last' = [op |-> "set", arg |-> n,
                   outcome |-> setattr(a, n, PyNone).outcome]
  /\ UNCHANGED <<b, args, heap, ctor, store>>

\* The caller appends to, or pops from, a list it handed to the constructor.
MutateArgument ==
  /\ \E addr \in Owned(args.a.p) :
       /\ \/ /\ Len(heap[addr]) < Capacity(a.cls)
             /\ \E x \in Elements(a.cls, addr) :
                  heap' = [heap EXCEPT ![addr] = Append(@, x)]
          \/ /\ heap[addr] # <<>>
             /\ heap' = [heap EXCEPT ![addr] = SubSeq(@, 1, Len(@) - 1)]
       /\ last' = [op |-> "mutate", arg |-> addr, outcome |-> Return(PyNone)]
  /\ UNCHANGED <<a, b, args, ctor, store>>

Next ==
  \/ ReadProperty
  \/ CallAdmits
  \/ Passes
  \/ CompareSelf
  \/ HashSelf
  \/ ReprSelf
  \/ AssignAttribute
  \/ MutateArgument

Spec == Init /\ [][Next]_vars

(***************************************************************************)
(* PairSpec: two objects of one class, constructed independently, and the  *)
(* operations that relate them.                                            *)
(***************************************************************************)
PairInit ==
  \E cls \in Classes : \E ia \in Inputs(cls, 1), ib \in Inputs(cls, 3) :
    /\ heap = ia.cells \o ib.cells
    /\ a = New(cls, ia.p, heap)
    /\ b = New(cls, ib.p, heap)
    /\ args = [a |-> [p |-> ia.p, view |-> ArgsView(ia.p, heap)],
               b |-> [p |-> ib.p, view |-> ArgsView(ib.p, heap)]]
    /\ ctor = Snapshot(a, heap)
    /\ last = [op |-> "__init__", arg |-> PyNone, outcome |-> Return(PyNone)]
    /\ store = NoStore

\* a == b
CompareEq ==
  /\ last' = [op |-> "eq_pair", arg |-> PyNone,
              outcome |-> Return(PyBool(Eq(a, b, FALSE, heap)))]
  /\ UNCHANGED <<a, b, args, heap, ctor, store>>

\* hash(a), hash(b)
CompareHash ==
  /\ last' = [op |-> "hash_pair", arg |-> PyNone,
              outcome |-> <<Hash(a, "a"), Hash(b, "b")>>]
  /\ UNCHANGED <<a, b, args, heap, ctor, store>>

\* a.<property>, b.<property>
ReadPair ==
  /\ \E n \in Range(Properties(a.cls)) :
       last' = [op |-> "get_pair", arg |-> n,
                outcome |-> <<getattr(a, n, heap), getattr(b, n, heap)>>]
  /\ UNCHANGED <<a, b, args, heap, ctor, store>>

\* The pass condition of both filters on one (run, tag).
PassesPair ==
  /\ a.cls = "RunTagFilter"
  /\ \E r \in ProbeRuns, t \in ProbeTags :
       last' = [op |-> "passes_pair", arg |-> <<r, t>>,
                outcome |-> <<Return(PyBool(passes(a, r, t))),
                              Return(PyBool(passes(b, r, t)))>>]
  /\ UNCHANGED <<a, b, args, heap, ctor, store>>

PairNext ==
  \/ CompareEq
  \/ CompareHash
  \/ ReadPair
  \/ PassesPair

PairSpec == PairInit /\ [][PairNext]_vars

(***************************************************************************)
(* DataProvider.  The methods with a body in provider.py are modelled from *)
(* it: data_location returns "", and list_blob_sequences,                  *)
(* read_blob_sequences, read_blob, list_tensors and read_tensors are `pass`*)
(* and return None.  list_runs, list_scalars and read_scalars are abstract *)
(* there; the provider of this model implements them over `store` as the   *)
(* interface documents them, and inherits the rest.                        *)
(***************************************************************************)
\* A data_location that renders the experiment id.
data_locationEcho(experiment_id) == Return(PyStr(experiment_id))

data_location(experiment_id) == Return(PyStr(""))

list_blob_sequences(experiment_id, plugin_name, run_tag_filter) == Return(PyNone)

read_blob_sequences(experiment_id, plugin_name, downsample, run_tag_filter) == Return(PyNone)

read_blob(blob_key) == Return(PyNone)

list_tensors == Return(PyNone)

read_tensors == Return(PyNone)

\* The backend: per experiment, plugin, run and tag, the steps recorded.  Two
\* experiments hold a series of the same plugin, run and tag.
Experiments == {"exp1", "exp2"}
Plugins == {"scalars", "images"}
BackendRuns == {"train", "eval"}
BackendTags == {"loss"}
Series ==
  {<<"exp1", "scalars", "train", "loss">>, <<"exp1", "scalars", "eval", "loss">>,
   <<"exp1", "images", "train", "loss">>, <<"exp2", "scalars", "train", "loss">>}
StepNumbers == 0..MaxStep

EmptyStore == [k \in Series |-> {}]

RECURSIVE TotalPoints(_, _)
TotalPoints(st, keys) ==
  IF keys = {} THEN 0
  ELSE LET k == CHOOSE x \in keys : TRUE
       IN Cardinality(st[k]) + TotalPoints(st, keys \ {k})

IsNone(x) == "type" \in DOMAIN x /\ x.type = "NoneType"

\* Whether run_tag_filter, a RunTagFilter or None ("all runs and tags will
\* be included"), lets (run, tag) pass.
FilterPasses(run_tag_filter, run, tag) ==
  IsNone(run_tag_filter) \/ passes(run_tag_filter, PyStr(run), PyStr(tag))

\* A backend that merges the steps of a plugin's run and tag over every
\* experiment.
SeriesDataOfAnyExperiment(st, experiment_id, plugin_name, run, tag) ==
  UNION { st[k] : k \in { x \in Series : x[2] = plugin_name /\ x[3] = run /\ x[4] = tag } }

\* The steps the backend holds for a run and tag of a plugin and experiment.
SeriesData(st, experiment_id, plugin_name, run, tag) ==
  IF <<experiment_id, plugin_name, run, tag>> \in Series
    THEN st[<<experiment_id, plugin_name, run, tag>>]
    ELSE {}

\* The (run, tag) pairs of a plugin and experiment that have data and pass
\* the filter.
Selected(st, experiment_id, plugin_name, run_tag_filter) ==
  { rt \in BackendRuns \X BackendTags :
      /\ SeriesData(st, experiment_id, plugin_name, rt[1], rt[2]) # {}
      /\ FilterPasses(run_tag_filter, rt[1], rt[2]) }

\* The nested map d with d[run][tag] = value[run, tag] for the pairs given.
Nested(pairs, value) ==
  [r \in { rt[1] : rt \in pairs } |->
     [t \in { rt[2] : rt \in { x \in pairs : x[1] = r } } |-> value[<<r, t>>]]]

\* The (run, tag) keys of a result; None has none.
Entries(d) ==
  IF IsNone(d) THEN {}
  ELSE UNION { { <<r, t>> : t \in DOMAIN d[r] } : r \in DOMAIN d }

Max(S) == CHOOSE x \in S : \A y \in S : y <= x

\* The steps of S in ascending order.
SortedSteps(S) ==
  CHOOSE s \in [1..Cardinality(S) -> S] :
    \A i, j \in 1..Cardinality(S) : i < j => s[i] < s[j]

\* A backend that returns the points in the order of descending step.
DownsampleReversed(steps, downsample) ==
  [i \in DOMAIN steps |-> steps[Len(steps) + 1 - i]]

\* At most `downsample` points of a series: this backend keeps the latest.
Downsample(steps, downsample) ==
  IF IsNone(downsample) \/ Len(steps) <= downsample.val THEN steps
  ELSE SubSeq(steps, Len(steps) - downsample.val + 1, Len(steps))

list_runs(st, experiment_id) ==
  IF experiment_id \notin Experiments THEN Raise("NotFound")
  ELSE Return({ Run__init__(PyStr(r), PyStr(r), PyFloat(0)) :
                  r \in { k[3] : k \in { x \in Series :
                                           x[1] = experiment_id /\ st[x] # {} } } })

list_scalars(st, experiment_id, plugin_name, run_tag_filter) ==
  IF experiment_id \notin Experiments THEN Raise("NotFound")
  ELSE LET found == Selected(st, experiment_id, plugin_name, run_tag_filter)
           series == [rt \in found |->
                        ScalarTimeSeries__init__(
                          PyInt(Max(SeriesData(st, experiment_id, plugin_name, rt[1], rt[2]))),
                          PyFloat(Max(SeriesData(st, experiment_id, plugin_name, rt[1], rt[2]))),
                          PyBytes(""), PyStr(""), PyStr(""))]
       IN Return(Nested(found, series))

read_scalars(st, experiment_id, plugin_name, downsample, run_tag_filter) ==
  IF experiment_id \notin Experiments THEN Raise("NotFound")
  ELSE IF ~IsNone(downsample) /\ downsample.val < 0 THEN Raise("InvalidArgument")
  ELSE LET found == Selected(st, experiment_id, plugin_name, run_tag_filter)
           kept == [rt \in found |->
                      Downsample(SortedSteps(SeriesData(st, experiment_id, plugin_name, rt[1], rt[2])),
                                 downsample)]
           data == [rt \in found |->
                      [i \in DOMAIN kept[rt] |->
                         ScalarDatum__init__(PyInt(kept[rt][i]), PyFloat(kept[rt][i]),
                                             PyFloat(kept[rt][i]))]]
       IN Return(Nested(found, data))

\* The inputs of the provider's operations.
QueryExperiments == Experiments \cup {"nope"}
Downsamples == {PyNone} \cup { PyInt(n) : n \in (0 - 1)..MaxStep }
FilterRunLists == {<<PyStr("train")>>, <<PyStr("eval"), PyStr("ghost")>>}
FilterTagLists == {<<PyStr("loss")>>, <<PyStr("ghost")>>}
QueryKeys == {PyStr(<<>>), PyStr(<<"k">>)}

\* run_tag_filter: omitted (None), or RunTagFilter(runs, tags) of the
\* caller's lists; `given` keeps the arguments as handed over.
FilterInputs ==
  {[filter |-> PyNone, given |-> PyNone]}
    \cup { [filter |-> RunTagFilter__init__(r.ref, t.ref, <<r.cell, t.cell>>),
            given |-> ArgsView([runs |-> r.ref, tags |-> t.ref], <<r.cell, t.cell>>)] :
            r \in {[ref |-> PyNone, cell |-> <<>>]}
                    \cup {[ref |-> PyList(1), cell |-> c] : c \in FilterRunLists},
            t \in {[ref |-> PyNone, cell |-> <<>>]}
                    \cup {[ref |-> PyList(2), cell |-> c] : c \in FilterTagLists} }

\* The arguments of a query, as `last` records them.
Query(experiment_id, plugin_name, downsample, fi) ==
  [experiment_id |-> experiment_id, plugin_name |-> plugin_name,
   downsample |-> downsample, run_tag_filter |-> fi.filter, given |-> fi.given]

\* provider.<op>(**q)
Call(op, st, q) ==
  CASE op = "list_scalars" ->
         list_scalars(st, q.experiment_id, q.plugin_name, q.run_tag_filter)
    [] op = "read_scalars" ->
         read_scalars(st, q.experiment_id, q.plugin_name, q.downsample, q.run_tag_filter)
    [] op = "list_blob_sequences" ->
         list_blob_sequences(q.experiment_id, q.plugin_name, q.run_tag_filter)
    [] op = "read_blob_sequences" ->
         read_blob_sequences(q.experiment_id, q.plugin_name, q.downsample, q.run_tag_filter)

QueryOps ==
  {"list_scalars", "read_scalars", "list_blob_sequences", "read_blob_sequences"}

(***************************************************************************)
(* ProviderSpec: a backend whose data comes and goes, and a caller that    *)
(* makes one call at a time: `last` holds the call and its outcome until   *)
(* the caller has taken it, or the backend's data has changed under it.    *)
(***************************************************************************)
Idle == [op |-> "idle", arg |-> PyNone, outcome |-> Return(PyNone)]

ProviderInit ==
  /\ store = EmptyStore
  /\ last = Idle
  /\ a = PyNone
  /\ b = PyNone
  /\ args = PyNone
  /\ heap = <<>>
  /\ ctor = PyNone

\* The backend records a datum.
Write ==
  /\ TotalPoints(store, Series) < MaxPoints
  /\ \E k \in Series, n \in StepNumbers :
       /\ n \notin store[k]
       /\ store' = [store EXCEPT ![k] = @ \cup {n}]
  /\ last' = Idle
  /\ UNCHANGED <<a, b, args, heap, ctor>>

\* The backend loses a time series.
RemoveSeries ==
  /\ \E k \in Series :
       /\ store[k] # {}
       /\ store' = [store EXCEPT ![k] = {}]
  /\ last' = Idle
  /\ UNCHANGED <<a, b, args, heap, ctor>>

DataLocation ==
  /\ last.op = "idle"
  /\ \E e \in QueryExperiments :
       last' = [op |-> "data_location", arg |-> e, outcome |-> data_location(e)]
  /\ UNCHANGED <<a, b, args, heap, ctor, store>>

ListRuns ==
  /\ last.op = "idle"
  /\ \E e \in QueryExperiments :
       last' = [op |-> "list_runs", arg |-> e, outcome |-> list_runs(store, e)]
  /\ UNCHANGED <<a, b, args, heap, ctor, store>>

ListScalars ==
  /\ last.op = "idle"
  /\ \E e \in QueryExperiments, pn \in Plugins, fi \in FilterInputs :
       LET q == Query(e, pn, PyNone, fi)
       IN last' = [op |-> "list_scalars", arg |-> q,
                   outcome |-> Call("list_scalars", store, q)]
  /\ UNCHANGED <<a, b, args, heap, ctor, store>>

ReadScalars ==
  /\ last.op = "idle"
  /\ \E e \in QueryExperiments, pn \in Plugins, d \in Downsamples, fi \in FilterInputs :
       LET q == Query(e, pn, d, fi)
       IN last' = [op |-> "read_scalars", arg |-> q,
                   outcome |-> Call("read_scalars", store, q)]
  /\ UNCHANGED <<a, b, args, heap, ctor, store>>

ListBlobSequences ==
  /\ last.op = "idle"
  /\ \E e \in QueryExperiments, pn \in Plugins, fi \in FilterInputs :
       LET q == Query(e, pn, PyNone, fi)
       IN last' = [op |-> "list_blob_sequences", arg |-> q,
                   outcome |-> Call("list_blob_sequences", store, q)]
  /\ UNCHANGED <<a, b, args, heap, ctor, store>>

ReadBlobSequences ==
  /\ last.op = "idle"
  /\ \E e \in QueryExperiments, pn \in Plugins, d \in Downsamples, fi \in FilterInputs :
       LET q == Query(e, pn, d, fi)
       IN last' = [op |-> "read_blob_sequences", arg |-> q,
                   outcome |-> Call("read_blob_sequences", store, q)]
  /\ UNCHANGED <<a, b, args, heap, ctor, store>>

ReadBlob ==
  /\ last.op = "idle"
  /\ \E key \in QueryKeys :
       last' = [op |-> "read_blob", arg |-> key, outcome |-> read_blob(key)]
  /\ UNCHANGED <<a, b, args, heap, ctor, store>>

ListTensors ==
  /\ last.op = "idle"
  /\ last' = [op |-> "list_tensors", arg |-> PyNone, outcome |-> list_tensors]
  /\ UNCHANGED <<a, b, args, heap, ctor, store>>

ReadTensors ==
  /\ last.op = "idle"
  /\ last' = [op |-> "read_tensors", arg |-> PyNone, outcome |-> read_tensors]
  /\ UNCHANGED <<a, b, args, heap, ctor, store>>

\* The caller has taken the outcome of its call.
Returned ==
  /\ last.op # "idle"
  /\ last' = Idle
  /\ UNCHANGED <<a, b, args, heap, ctor, store>>

ProviderNext ==
  \/ Write
  \/ RemoveSeries
  \/ DataLocation
  \/ ListRuns
  \/ ListScalars
  \/ ReadScalars
  \/ ListBlobSequences
  \/ ReadBlobSequences
  \/ ReadBlob
  \/ ListTensors
  \/ ReadTensors
  \/ Returned

ProviderSpec == ProviderInit /\ [][ProviderNext]_vars

(***************************************************************************)
(* Properties.                                                             *)
(***************************************************************************)
\* (run, tag) is admitted by the constructor arguments v: each of runs and
\* tags was None or held the name.
Admitted(v, run, tag) ==
  /\ (v.runs.type = "NoneType" \/ run \in Range(v.runs.val))
  /\ (v.tags.type = "NoneType" \/ tag \in Range(v.tags.val))

\* C1 as stated: RunTagFilter offers admits(run, tag), which returns True
\* exactly when runs is None or holds run, and tags is None or holds tag.
C1_AdmitsReturnsPassCondition ==
  last.op = "admits" =>
    /\ last.outcome.kind = "return"
    /\ last.outcome.value = PyBool(Admitted(args.a.view, last.arg[1], last.arg[2]))

\* C4: after any sequence of caller operations every accessor still returns
\* the value the object was constructed with.
C4_AccessorsKeepConstructedValues == Snapshot(a, heap) = ctor

\* C8 as stated: a BlobReference is never created with an empty blob_key or
\* one holding a character outside [a-zA-Z0-9._~-].
C8_InvalidKeyRejected ==
  a.cls = "BlobReference" => ValidBlobKey(a._blob_key.val)

\* C8, amended: creating a BlobReference validates nothing; every blob_key,
\* empty or with characters outside the unreserved set, is accepted and
\* blob_key returns it unchanged.
C8_KeyStoredAsGiven ==
  (a.cls = "BlobReference" /\ last.op = "get" /\ last.arg = "blob_key") =>
    last.outcome = Return(args.a.view.blob_key)

\* The empty key was given, accepted, and read back.
C8_Witness ==
  /\ a.cls = "BlobReference"
  /\ last.op = "get"
  /\ last.arg = "blob_key"
  /\ args.a.view.blob_key = PyStr(<<>>)
  /\ last.outcome = Return(PyStr(<<>>))

\* A scalar up to what makes two scalars the same value: a number is its
\* numeric value (1, 1.0 and True are one value), a NaN is a NaN.
ScalarValue(v) ==
  IF v.type = "nan" THEN [type |-> "nan", val |-> "nan"]
  ELSE IF IsNumber(v) THEN [type |-> "number", val |-> NumVal(v)]
  ELSE v

\* The field values of a BlobReference.
RefValue(r) ==
  [blob_key |-> ScalarValue(r._blob_key), url |-> ScalarValue(r._url)]

\* A constructor argument up to what makes two arguments the same value: a
\* sequence is its kind and the field values of its elements, whichever
\* objects they are.
FieldValue(v) ==
  IF v.type \in {"tuple", "list_contents"}
    THEN [type |-> v.type, val |-> [i \in DOMAIN v.val |-> RefValue(v.val[i].val)]]
    ELSE ScalarValue(v)

\* Two elements of `values` compare equal: they are one object, or
\* BlobReferences with the same blob_key and url, neither a NaN.
ElementsCompareEqual(x, y) ==
  \/ x.id = y.id
  \/ /\ RefValue(x.val) = RefValue(y.val)
     /\ x.val._blob_key.type # "nan"
     /\ x.val._url.type # "nan"

\* Two constructor arguments compare equal under ==: scalars are the same
\* value and no NaN; sequences are both tuples or both lists, of one length,
\* with elements that compare equal pairwise.
ArgumentsCompareEqual(x, y) ==
  IF x.type \in {"tuple", "list_contents"} /\ x.type = y.type
    THEN /\ Len(x.val) = Len(y.val)
         /\ \A i \in DOMAIN x.val : ElementsCompareEqual(x.val[i], y.val[i])
    ELSE /\ ScalarValue(x) = ScalarValue(y)
         /\ x.type # "nan"

\* The two objects were built from identical field values.
IdenticalFields ==
  \A n \in DOMAIN args.a.view :
    FieldValue(args.a.view[n]) = FieldValue(args.b.view[n])

\* Every field of `a` compares equal to the same field of `b`.
FieldsCompareEqual ==
  \A n \in DOMAIN args.a.view :
    ArgumentsCompareEqual(args.a.view[n], args.b.view[n])

\* The fields in which the two objects were given different values.
DifferingFields ==
  { n \in DOMAIN args.a.view :
      FieldValue(args.a.view[n]) # FieldValue(args.b.view[n]) }

\* C2 as stated: a == b iff every field of a and b is equal; objects built
\* from identical field values are equal, objects differing in exactly one
\* field are unequal.
C2_EqualIffIdenticalFields ==
  (a.cls \in ValueTypes /\ last.op = "eq_pair") =>
    (last.outcome.value.val <=> IdenticalFields)

\* C2, amended: a == b iff every pair of corresponding fields compares equal
\* under ==: scalar fields hold the same value (numbers by numeric value),
\* which is no NaN (NaN is unequal to itself); `values` are both tuples or
\* both lists, of one length, whose elements are pairwise one object or
\* BlobReferences with the same blob_key and url, neither a NaN.  Objects
\* given different values in exactly one field are unequal.
C2_EqualIffFieldsCompareEqual ==
  (a.cls \in ValueTypes /\ last.op = "eq_pair") =>
    /\ last.outcome.kind = "return"
    /\ last.outcome.value.val <=> FieldsCompareEqual
    /\ Cardinality(DifferingFields) = 1 => ~last.outcome.value.val

\* Two BlobSequenceTimeSeries that differ in latest_max_index alone compared
\* unequal.
C2_Witness ==
  /\ a.cls = "BlobSequenceTimeSeries"
  /\ last.op = "eq_pair"
  /\ DifferingFields = {"latest_max_index"}
  /\ \A n \in DOMAIN args.a.view : args.a.view[n].type # "nan"
  /\ last.outcome = Return(PyBool(FALSE))

\* C3: if a == b then hash(a) and hash(b) both return, the same value.
C3_EqualObjectsHashEqual ==
  (a.cls \in ValueTypes /\ last.op = "hash_pair" /\ Eq(a, b, FALSE, heap)) =>
    /\ last.outcome[1].kind = "return"
    /\ last.outcome[2].kind = "return"
    /\ last.outcome[1].value = last.outcome[2].value

\* Two collection arguments have the same set of elements.
SameElements(x, y) ==
  \/ x.type = "NoneType" /\ y.type = "NoneType"
  \/ /\ x.type = "list_contents"
     /\ y.type = "list_contents"
     /\ Range(x.val) = Range(y.val)

SameFilterInputs ==
  /\ a.cls = "RunTagFilter"
  /\ SameElements(args.a.view.runs, args.b.view.runs)
  /\ SameElements(args.a.view.tags, args.b.view.tags)

\* C5: two filters built from run collections with the same elements and tag
\* collections with the same elements expose equal runs and equal tags and
\* answer every (run, tag) alike.
C5_FilterDependsOnElementSets ==
  SameFilterInputs =>
    /\ getattr(a, "runs", heap) = getattr(b, "runs", heap)
    /\ getattr(a, "tags", heap) = getattr(b, "tags", heap)
    /\ last.op = "passes_pair" => last.outcome[1] = last.outcome[2]
    /\ \A r \in ProbeRuns, t \in ProbeTags : passes(a, r, t) <=> passes(b, r, t)

\* Filters built from [a, b] and from [b, a, ...] or [b, a] with a repeated
\* tag were asked about a pair.
C5_Witness ==
  /\ SameFilterInputs
  /\ last.op = "passes_pair"
  /\ args.a.view.runs.type = "list_contents"
  /\ args.a.view.runs.val = <<PyStr("a"), PyStr("b")>>
  /\ args.b.view.runs.val = <<PyStr("b"), PyStr("a")>>
  /\ args.a.view.tags.type = "list_contents"
  /\ args.a.view.tags.val = <<PyStr("x"), PyStr("x")>>
  /\ args.b.view.tags.val = <<PyStr("x")>>
  /\ last.outcome[1] = Return(PyBool(TRUE))

\* The query of `last` with run_tag_filter omitted, on the same data.
Unfiltered == Call(last.op, store, [last.arg EXCEPT !.run_tag_filter = PyNone])

\* C6: a listing or reading result holds a (run, tag) entry only if the
\* backend has data for it under the queried experiment and plugin and the
\* filter admits it; a filter causes no error, and the filtered result is a
\* subset of the unfiltered one.  (list_blob_sequences and
\* read_blob_sequences return None, which holds no entry.)
C6_FilterOnlyNarrows ==
  last.op \in QueryOps =>
    /\ last.outcome.kind = "raise" =>
         /\ Unfiltered.kind = "raise"
         /\ Unfiltered.value = last.outcome.value
    /\ last.outcome.kind = "return" =>
         /\ Unfiltered.kind = "return"
         /\ Entries(last.outcome.value) \subseteq Entries(Unfiltered.value)
         /\ \A rt \in Entries(last.outcome.value) :
              /\ last.arg.experiment_id \in Experiments
              /\ <<last.arg.experiment_id, last.arg.plugin_name, rt[1], rt[2]>> \in Series
              /\ store[<<last.arg.experiment_id, last.arg.plugin_name, rt[1], rt[2]>>] # {}
              /\ \/ IsNone(last.arg.given)
                 \/ Admitted(last.arg.given, PyStr(rt[1]), PyStr(rt[2]))

\* read_scalars of the experiment exp2 with the filter runs = [eval, ghost]
\* returned no entry and no error, while exp2 holds data for train alone and
\* the other experiment holds data for eval under the same plugin.
C6_Witness ==
  /\ last.op = "read_scalars"
  /\ last.outcome.kind = "return"
  /\ last.arg.experiment_id = "exp2"
  /\ last.arg.plugin_name = "scalars"
  /\ ~IsNone(last.arg.given)
  /\ last.arg.given.runs.type = "list_contents"
  /\ last.arg.given.runs.val = <<PyStr("eval"), PyStr("ghost")>>
  /\ store[<<"exp2", "scalars", "train", "loss">>] # {}
  /\ store[<<"exp1", "scalars", "eval", "loss">>] # {}
  /\ Entries(last.outcome.value) = {}
  /\ Entries(Unfiltered.value) = {<<"train", "loss">>}

\* The blob keys the provider has handed out in `last`: those of the
\* BlobReferences of a read_blob_sequences result.
IssuedKeys ==
  IF last.op = "read_blob_sequences" /\ last.outcome.kind = "return"
  THEN UNION { UNION { { ref.val._blob_key : ref \in Range(datum._values.val) } :
                       datum \in Range(last.outcome.value[rt[1]][rt[2]]) } :
               rt \in Entries(last.outcome.value) }
  ELSE {}

\* C7: read_blob raises NotFound for every key the provider has not handed
\* out; it never returns for such a key.
C7_UnknownKeyRaisesNotFound ==
  (last.op = "read_blob" /\ last.arg \notin IssuedKeys) =>
    last.outcome = Raise("NotFound")

\* C9: every series of a read result is strictly ascending by step, and
\* holds at most downsample points when downsample is given.
C9_SeriesSortedAndCapped ==
  (last.op \in {"read_scalars", "read_blob_sequences"}
     /\ last.outcome.kind = "return") =>
    \A rt \in Entries(last.outcome.value) :
      LET s == last.outcome.value[rt[1]][rt[2]]
      IN /\ \A i, j \in DOMAIN s : i < j => s[i]._step.val < s[j]._step.val
         /\ ~IsNone(last.arg.downsample) => Len(s) <= last.arg.downsample.val

\* read_scalars with downsample = 2 on a series of three points returned two
\* points.
C9_Witness ==
  /\ last.op = "read_scalars"
  /\ last.outcome.kind = "return"
  /\ last.arg.downsample = PyInt(2)
  /\ last.arg.experiment_id = "exp1"
  /\ last.arg.plugin_name = "scalars"
  /\ Cardinality(store[<<"exp1", "scalars", "train", "loss">>]) = 3
  /\ <<"train", "loss">> \in Entries(last.outcome.value)
  /\ Len(last.outcome.value["train"]["loss"]) = 2

\* C10: data_location returns "" for every experiment id, raises nothing and
\* leaves the backend's data as it was, whatever came before.
C10_DataLocationEmptyAndPure ==
  [][last'.op = "data_location" =>
       /\ last'.outcome = Return(PyStr(""))
       /\ store' = store]_vars

\* data_location was asked about an experiment that does not exist, on a
\* backend that holds data.
C10_Witness ==
  /\ last.op = "data_location"
  /\ last.arg = "nope"
  /\ last.outcome = Return(PyStr(""))
  /\ store # EmptyStore

\* A collection argument was given as an empty collection.
GivenEmpty(x) == x.type = "list_contents" /\ x.val = <<>>

\* C11: runs (resp. tags) is None exactly when the constructor received
\* None, an empty collection is stored as the empty set, a filter built with
\* an empty runs or tags collection passes no (run, tag) pair, and one built
\* with None passes every name on that axis.
C11_NoneDistinctFromEmpty ==
  a.cls = "RunTagFilter" =>
    /\ a._runs.type = "NoneType" <=> args.a.view.runs.type = "NoneType"
    /\ a._tags.type = "NoneType" <=> args.a.view.tags.type = "NoneType"
    /\ GivenEmpty(args.a.view.runs) => a._runs = [type |-> "frozenset", val |-> {}]
    /\ GivenEmpty(args.a.view.tags) => a._tags = [type |-> "frozenset", val |-> {}]
    /\ last.op = "passes" =>
         /\ (GivenEmpty(args.a.view.runs) \/ GivenEmpty(args.a.view.tags)) =>
              last.outcome = Return(PyBool(FALSE))
         /\ args.a.view.runs.type = "NoneType" =>
              last.outcome =
                Return(PyBool(\/ args.a.view.tags.type = "NoneType"
                              \/ last.arg[2] \in Range(args.a.view.tags.val)))
         /\ args.a.view.tags.type = "NoneType" =>
              last.outcome =
                Return(PyBool(\/ args.a.view.runs.type = "NoneType"
                              \/ last.arg[1] \in Range(args.a.view.runs.val)))

\* A filter built with runs = [] and tags = None has rejected a pair.
C11_Witness ==
  /\ a.cls = "RunTagFilter"
  /\ GivenEmpty(args.a.view.runs)
  /\ args.a.view.tags.type = "NoneType"
  /\ a._runs = [type |-> "frozenset", val |-> {}]
  /\ a._tags = PyNone
  /\ last.op = "passes"
  /\ last.arg = <<PyStr("a"), PyStr("x")>>
  /\ last.outcome = Return(PyBool(FALSE))

====
